---- MODULE Spec2Model ----
(***************************************************************************)
(* Verification model of the audio greeting app.                           *)
(*                                                                         *)
(*  - Spec       : the AudioPlayer component (src/src/components/          *)
(*                 AudioPlayer.tsx) driven by its props, by the media       *)
(*                 elements it renders, by the Web Audio context and by the *)
(*                 animation-frame scheduler.                               *)
(*  - SpecServer : the Express proxy/auth service (src/server/server.ts and *)
(*                 the second revision of it kept in src/unnamed/part_009). *)
(*  - SpecApp    : the App component (src/src/App.tsx) with the service     *)
(*                 functions of src/src/services/elevenlabs.ts and the      *)
(*                 submit handler of the voice cloning form.                *)
(*                                                                         *)
(* A React commit (render, ref updates, effect cleanups, effect bodies and *)
(* the re-render caused by state set inside the effects) is one step: the  *)
(* handlers are written as functions from a record of the component state  *)
(* to the next record, composed in the order React runs them.              *)
(***************************************************************************)
EXTENDS Integers, Sequences, FiniteSets, TLC

\* ------------------------------------------------------------------ bounds
MaxEl == 2          \* <audio> DOM elements alive at the same time
MaxDur == 1         \* longest media duration, in seconds
MaxThen == 1        \* pending resume().then continuations
MaxFrames == 2      \* animation-frame identifiers in use at the same time
MaxEmailLen == 1    \* characters of an email address
MaxReqs == 3        \* HTTP requests the server receives
MaxNow == 1         \* clock ticks, in token lifetimes
MaxCalls == 2       \* service calls of the App in flight at the same time
MaxUrls == 2        \* object URLs the App creates

\* expiresIn: one token lifetime is the unit of the server clock.
TokenLife == 1

\* ------------------------------------------------------------ value domains
Null == "null"
Urls == {"a", "b"}
NoError == "none"
NaN == -1           \* audio.duration before metadata is known
Infinity == -2      \* audio.duration of a stream of unknown length
NoEl == 0           \* a ref whose .current is null / undefined
ElIds == 1..MaxEl
DurVals == {Infinity} \cup (0..MaxDur)

isFinite(d) == d >= 0

\* ---------------------------------------------------------------- variables
VARIABLES
  \* props of AudioPlayer
  audioUrl, isGenerating,
  \* useState
  isPlaying, progress, duration, isLoadingMetadata, error,
  \* useRef
  audioRef, canvasRef, animationRef, sourceRef, analyserRef,
  \* audioContextRef.current and its state; pending resume() promises; the
  \* number of close() calls made on the context
  ctx, ctxAvail, resumeReq, resumeThen, closeCalls,
  \* whether the component instance is mounted
  mounted,
  \* the DOM: media elements, their listeners, the audio nodes, the frames
  els, lisMeta, lisCanPlay, lisSync, e2El, srcNodes, anNodes,
  frames, e3Dep, e3Loop,
  \* observation: the last operation, what it started from, its argument;
  \* errors raised so far
  op, pre, seekX, thrown, bindError,
  \* the server
  serverFile, jwtSecret, apiKey, users, issued, now, reqs, resps,
  upstreamCalls,
  \* the App component: localStorage, useState, the object URLs created and
  \* not revoked, the service calls in flight, the last operation
  storage, authToken, currentUser, voices, selectedVoice, isLoadingVoices,
  voicesError, audioState, formError, objectUrls, created, calls, appOp

playerVars == <<audioUrl, isGenerating, isPlaying, progress, duration,
                isLoadingMetadata, error, audioRef, canvasRef, animationRef,
                sourceRef, analyserRef, ctx, ctxAvail, resumeReq, resumeThen,
                els, lisMeta, lisCanPlay, lisSync, e2El, srcNodes, anNodes,
                frames, e3Dep, e3Loop, op, pre, seekX, thrown, bindError,
                closeCalls, mounted>>

serverVars == <<serverFile, jwtSecret, apiKey, users, issued, now, reqs,
                resps, upstreamCalls>>

appVars == <<storage, authToken, currentUser, voices, selectedVoice,
             isLoadingVoices, voicesError, audioState, formError, objectUrls,
             created, calls, appOp>>

vars == <<playerVars, serverVars, appVars>>

\* ------------------------------------------------------------ media element
\* A freshly created <audio> element (no src attribute yet).
\* net is the load state: "empty" (no resource), "loading", "meta" (duration
\* known, readyState HAVE_METADATA), "enough" (readyState HAVE_ENOUGH_DATA) or
\* "error".
BlankEl == [src |-> Null, net |-> "empty", dur |-> NaN, time |-> 0,
            paused |-> TRUE, playPend |-> FALSE]

\* audio.readyState
readyState(el) ==
  IF el.net = "enough" THEN 4 ELSE IF el.net = "meta" THEN 1 ELSE 0

HasMetadata(el) == el.net \in {"meta", "enough"}

\* HTMLMediaElement load algorithm: pending play promises are rejected, the
\* element is paused, readyState drops to HAVE_NOTHING, duration is NaN, and
\* the resource named by src (if any) is fetched.
ElLoad(e, src) ==
  [src |-> src, net |-> IF src = Null THEN "empty" ELSE "loading",
   dur |-> NaN, time |-> 0, paused |-> TRUE, playPend |-> FALSE]


\* What a load started from (recorded by load steps only).
NoPre == [playing |-> FALSE, bound |-> FALSE, frame |-> FALSE]

\* ----------------------------------------------- the component state record
\* The component state as one record, so that a handler is a function from
\* the state before to the state after; ovf marks a step that would need more
\* elements, frames or continuations than the bounds provide.
St ==
  [audioUrl |-> audioUrl, isGenerating |-> isGenerating,
   isPlaying |-> isPlaying, progress |-> progress, duration |-> duration,
   isLoadingMetadata |-> isLoadingMetadata, error |-> error,
   audioRef |-> audioRef, canvasRef |-> canvasRef,
   animationRef |-> animationRef, sourceRef |-> sourceRef,
   analyserRef |-> analyserRef, ctx |-> ctx, ctxAvail |-> ctxAvail,
   resumeReq |-> resumeReq, resumeThen |-> resumeThen, els |-> els,
   lisMeta |-> lisMeta, lisCanPlay |-> lisCanPlay, lisSync |-> lisSync,
   e2El |-> e2El, srcNodes |-> srcNodes, anNodes |-> anNodes,
   frames |-> frames, e3Dep |-> e3Dep, e3Loop |-> e3Loop,
   op |-> "", pre |-> NoPre, seekX |-> 0, thrown |-> thrown,
   bindError |-> bindError, closeCalls |-> closeCalls, mounted |-> mounted,
   ovf |-> FALSE]

Min(S) == CHOOSE x \in S : \A y \in S : x <= y

SeqRange(q) == {q[i] : i \in DOMAIN q}

\* Elements the component can still reach: through a ref, a listener closure,
\* a promise continuation or a node.
LiveEls(s) ==
  ({s.audioRef, s.lisMeta, s.lisCanPlay, s.lisSync, s.e2El, s.sourceRef,
    s.analyserRef} \cup SeqRange(s.resumeThen)
   \cup {e \in ElIds : s.els[e].playPend}
   \cup {e \in ElIds : s.srcNodes[e] = "connected"
                       \/ s.anNodes[e] = "connected"}) \ {NoEl}

\* Garbage collection: an unreachable element and its nodes are forgotten, so
\* that its identifier can name the next element the component creates.
Collect(s) ==
  LET live == LiveEls(s) IN
  [s EXCEPT !.els = [e \in ElIds |-> IF e \in live THEN s.els[e] ELSE BlankEl],
            !.srcNodes = [e \in ElIds |-> IF e \in live THEN s.srcNodes[e]
                                          ELSE "none"],
            !.anNodes = [e \in ElIds |-> IF e \in live THEN s.anNodes[e]
                                         ELSE "none"]]

\* ------------------------------------------------------------------ render
\* Which of the five return statements of the component renders.
View(s) ==
  IF s.isGenerating THEN "generating"
  ELSE IF s.error # NoError THEN "error"
  ELSE IF s.audioUrl = Null THEN "empty"
  ELSE IF s.isLoadingMetadata THEN "loading"
  ELSE "main"

\* 'pause' event dispatched on element e.
onPause(s, e) ==
  IF s.lisSync = e THEN [s EXCEPT !.isPlaying = FALSE] ELSE s

\* 'play' event dispatched on element e.
onPlay(s, e) ==
  IF s.lisSync = e THEN [s EXCEPT !.isPlaying = TRUE] ELSE s

\* 'ended' event dispatched on element e.
onEnded(s, e) ==
  IF s.lisSync = e THEN [s EXCEPT !.isPlaying = FALSE] ELSE s

\* 'timeupdate' event dispatched on element e.
onTimeUpdate(s, e) ==
  IF s.lisSync = e THEN [s EXCEPT !.progress = s.els[e].time] ELSE s

\* The element leaves the document: the platform pauses it.
ElRemoved(s, e) ==
  IF s.els[e].paused THEN s
  ELSE onPause([s EXCEPT !.els[e].paused = TRUE,
                         !.els[e].playPend = FALSE], e)

\* React reconciliation of the returned tree: only the main view holds the
\* <audio> and <canvas> elements, so they are created when the main view
\* appears and dropped (refs set to null) when another view replaces it.
Reconcile(s) ==
  IF View(s) = "main"
  THEN IF s.audioRef = NoEl
       THEN LET free == ElIds \ LiveEls(s) IN
            IF free = {} THEN [s EXCEPT !.ovf = TRUE]
            ELSE LET e == Min(free) IN
                 [s EXCEPT !.els[e] = ElLoad(e, s.audioUrl),
                           !.srcNodes[e] = "none", !.anNodes[e] = "none",
                           !.audioRef = e, !.canvasRef = TRUE]
       ELSE IF s.els[s.audioRef].src # s.audioUrl
            THEN [s EXCEPT !.els[s.audioRef] = ElLoad(s.audioRef, s.audioUrl)]
            ELSE s
  ELSE IF s.audioRef = NoEl THEN s
       ELSE [ElRemoved(s, s.audioRef) EXCEPT !.audioRef = NoEl,
                                             !.canvasRef = FALSE]


\* ------------------------------------------------------- audio context, nodes
\* ensureAudioContext: creates the context when the ref is empty (the
\* constructor throws where the platform has none; a new context starts in
\* state st0), and asks a suspended context to resume without waiting.
ensureAudioContext(s, st0) ==
  LET s1 == IF s.ctx \notin {"none", "closed"} THEN s
            ELSE IF s.ctxAvail THEN [s EXCEPT !.ctx = st0]
            ELSE s
  IN IF s1.ctx = "suspended"
     THEN [s1 EXCEPT !.resumeReq = TRUE]
     ELSE s1

\* Mutant: the refs are dropped but the nodes stay connected.
DisconnectNodesDropsRefsOnly(s) ==
  [s EXCEPT !.sourceRef = NoEl, !.analyserRef = NoEl]

\* sourceRef.current.disconnect(); analyserRef.current.disconnect(); both refs
\* set to null.
DisconnectNodes(s) ==
  LET s1 == IF s.sourceRef # NoEl
            THEN [s EXCEPT !.srcNodes[s.sourceRef] = "disconnected"] ELSE s
      s2 == IF s1.analyserRef # NoEl
            THEN [s1 EXCEPT !.anNodes[s1.analyserRef] = "disconnected"] ELSE s1
  IN [s2 EXCEPT !.sourceRef = NoEl, !.analyserRef = NoEl]

\* Mutant: setupAudioNodes without its "already set up" guard.
AlreadySetUpUnchecked(s) == FALSE

\* The guard of setupAudioNodes: a source already exists for this element.
AlreadySetUp(s) == s.sourceRef # NoEl

\* setupAudioNodes for the element e captured by Effect 2.
\* createMediaElementSource raises InvalidStateError on an element that
\* already has a source node; the catch block drops the refs.
setupAudioNodes(s, st0, e) ==
  LET s1 == ensureAudioContext(s, st0) IN
  IF s1.ctx = "none" THEN s1
  ELSE IF AlreadySetUp(s1) THEN s1
  ELSE IF s1.srcNodes[e] # "none"
       THEN DisconnectNodes([s1 EXCEPT !.bindError = TRUE])
       ELSE [s1 EXCEPT !.srcNodes[e] = "connected",
                       !.anNodes[e] = "connected",
                       !.sourceRef = e, !.analyserRef = e]

\* ---------------------------------------------------- the animation frames
\* Mutant: the ref is cleared but cancelAnimationFrame is not called.
CancelFrameForgotten(s) == [s EXCEPT !.animationRef = 0]

\* cancelAnimationFrame(animationRef.current); animationRef.current = undefined
CancelFrame(s) ==
  IF s.animationRef = 0 THEN s
  ELSE [s EXCEPT !.frames = {f \in s.frames : f.id # s.animationRef},
                 !.animationRef = 0]

\* animationRef.current = requestAnimationFrame(renderFrame), then the
\* analyser is read and the bars are drawn.
RequestFrame(s) ==
  LET free == (1..MaxFrames) \ ({f.id : f \in s.frames} \cup {s.animationRef})
  IN IF free = {} THEN [s EXCEPT !.ovf = TRUE]
     ELSE [s EXCEPT !.frames = @ \cup {[id |-> Min(free), active |-> TRUE]},
                    !.animationRef = Min(free)]

\* renderFrame, called by the effect (active = TRUE) or as the callback of a
\* frame whose closure has isActive = active. isPlaying of the closure is
\* TRUE: the effect defines renderFrame only when it is.
renderFrame(s, active) ==
  IF ~active \/ s.analyserRef = NoEl
  THEN [s EXCEPT !.animationRef = 0]
  ELSE RequestFrame(s)

\* Cleanup returned by Effect 3 when it started a loop.
E3Cleanup(s) ==
  IF ~s.e3Loop THEN s
  ELSE CancelFrame([s EXCEPT
         !.frames = {[id |-> f.id, active |-> FALSE] : f \in s.frames},
         !.e3Loop = FALSE])

\* Effect 3 (deps [isPlaying, analyserRef]): cleanup of the previous run, then
\* either the inactive branch or the start of the loop.
Effect3(s) ==
  LET s1 == [E3Cleanup(s) EXCEPT !.e3Dep = s.isPlaying] IN
  IF ~s1.canvasRef \/ s1.analyserRef = NoEl \/ ~s1.isPlaying
  THEN CancelFrame(s1)
  ELSE renderFrame([s1 EXCEPT !.e3Loop = TRUE], TRUE)

\* The render that follows a state change: reconciliation, then Effect 3 when
\* isPlaying differs from the value of its last run.
Rerender(s) ==
  LET s1 == Reconcile(s) IN
  Collect(IF s1.isPlaying # s1.e3Dep THEN Effect3(s1) ELSE s1)


\* ------------------------------------------------- effects keyed on audioUrl
\* Cleanup of the metadata effect: the three listeners are removed.
MetaCleanup(s) == [s EXCEPT !.lisMeta = NoEl]

\* Mutant: the cleanup of Effect 2 removes the listener and keeps the nodes.
E2CleanupKeepsNodes(s) ==
  IF s.e2El = NoEl THEN s
  ELSE [s EXCEPT
         !.lisCanPlay = IF s.lisCanPlay = s.e2El THEN NoEl ELSE s.lisCanPlay,
         !.e2El = NoEl]

\* Cleanup of Effect 2 (returned only when the effect got past its early
\* return): the canplaythrough listener is removed from the captured element
\* and both nodes are disconnected and dropped.
E2Cleanup(s) ==
  IF s.e2El = NoEl THEN s
  ELSE DisconnectNodes([s EXCEPT
         !.lisCanPlay = IF s.lisCanPlay = s.e2El THEN NoEl ELSE s.lisCanPlay,
         !.e2El = NoEl])

\* Cleanup of Effect 5: the four listeners are removed.
E5Cleanup(s) == [s EXCEPT !.lisSync = NoEl]

\* Mutant: the reset effect only flags the loading state and reloads.
ResetEffectKeepsPlayback(s) ==
  LET s1 == [s EXCEPT !.error = NoError,
                      !.isLoadingMetadata = (s.audioUrl # Null)]
  IN IF s1.audioRef # NoEl
     THEN [s1 EXCEPT !.els[s1.audioRef] = ElLoad(s1.audioRef, s1.audioUrl)]
     ELSE s1

\* The reset effect: the five setters, then src and load() on the element the
\* ref holds at the time the effect runs.
ResetEffect(s) ==
  LET s1 == [s EXCEPT !.isPlaying = FALSE, !.progress = 0, !.duration = 0,
                      !.error = NoError,
                      !.isLoadingMetadata = (s.audioUrl # Null)]
  IN IF s1.audioRef # NoEl
     THEN [s1 EXCEPT !.els[s1.audioRef] = ElLoad(s1.audioRef, s1.audioUrl)]
     ELSE s1

\* The metadata effect: listeners go on the element the ref holds now.
MetaEffect(s) == [s EXCEPT !.lisMeta = s.audioRef]

\* Effect 2: without an element or a URL the nodes are dropped; otherwise the
\* nodes are set up at once when the element has enough data, or on its
\* canplaythrough event.
Effect2(s, st0) ==
  IF s.audioRef = NoEl \/ s.audioUrl = Null
  THEN DisconnectNodes(s)
  ELSE LET s1 == [s EXCEPT !.e2El = s.audioRef] IN
       IF readyState(s1.els[s1.audioRef]) >= 4
       THEN setupAudioNodes(s1, st0, s1.audioRef)
       ELSE [s1 EXCEPT !.lisCanPlay = s1.audioRef]

\* Effect 5: listeners go on the element the ref holds now.
Effect5(s) == [s EXCEPT !.lisSync = s.audioRef]

\* The commit of a render with a new audioUrl: the tree is reconciled with the
\* state of the previous render, the cleanups run, the effects run in source
\* order, and the state they set is rendered.
LoadCommit(s, u, g, st0) ==
  LET s0 == Reconcile([s EXCEPT !.audioUrl = u, !.isGenerating = g,
                                !.op = "load",
                                !.pre = [playing |-> s.isPlaying,
                                         bound |-> s.sourceRef # NoEl,
                                         frame |-> s.frames # {}]])
      s1 == E5Cleanup(E2Cleanup(MetaCleanup(s0)))
      s2 == Effect5(Effect2(MetaEffect(ResetEffect(s1)), st0))
  IN Rerender(s2)

\* ------------------------------------------------------------------ unmount
\* Mutant: close() is called whenever a context was ever created.
E4CleanupUnguarded(s) ==
  IF s.ctx = "none" THEN s
  ELSE [s EXCEPT !.ctx = "closed", !.closeCalls = @ + 1,
                 !.resumeReq = FALSE, !.resumeThen = <<>>]

\* Cleanup of Effect 4: a context that exists and is not closed is closed,
\* and the ref is emptied ("closed" stands for both: the ref is null and the
\* context it held is closed). Closing rejects the pending resume promises.
E4Cleanup(s) ==
  IF s.ctx \in {"none", "closed"} THEN s
  ELSE [s EXCEPT !.ctx = "closed", !.closeCalls = @ + 1,
                 !.resumeReq = FALSE, !.resumeThen = <<>>]

\* The effect cleanups React runs at unmount, in source order.
Teardown(s) ==
  E5Cleanup(E4Cleanup(E3Cleanup(E2Cleanup(MetaCleanup(s)))))

\* The component leaves the tree: its elements are removed and the refs
\* emptied, then the cleanups run.
UnmountCommit(s) ==
  LET s0 == [s EXCEPT !.op = "unmount", !.mounted = FALSE,
                      !.pre = [playing |-> s.isPlaying,
                               bound |-> s.sourceRef # NoEl,
                               frame |-> s.frames # {}]]
      s1 == IF s0.audioRef = NoEl THEN s0
            ELSE [ElRemoved(s0, s0.audioRef) EXCEPT !.audioRef = NoEl,
                                                    !.canvasRef = FALSE]
  IN Collect(Teardown(s1))

\* ------------------------------------------------------- the media listeners
handleLoadedMetadata(s, e) ==
  IF s.lisMeta # e THEN s
  ELSE IF isFinite(s.els[e].dur)
       THEN [s EXCEPT !.duration = s.els[e].dur,
                      !.isLoadingMetadata = FALSE, !.error = NoError]
       ELSE s

handleDurationChange(s, e) ==
  IF s.lisMeta # e THEN s
  ELSE IF isFinite(s.els[e].dur) /\ s.els[e].dur > 0
       THEN [s EXCEPT !.duration = s.els[e].dur,
                      !.isLoadingMetadata = FALSE, !.error = NoError]
       ELSE s

handleError(s, e) ==
  IF s.lisMeta # e THEN s
  ELSE [s EXCEPT !.error = "load", !.isLoadingMetadata = FALSE]

handleCanPlayThrough(s, e, st0) ==
  IF s.lisCanPlay # e THEN s ELSE setupAudioNodes(s, st0, e)

\* ------------------------------------------------------------- the transport
\* playAudio: audio.play(); the promise settles later.
playAudio(s, e) ==
  onPlay([s EXCEPT !.els[e].paused = FALSE, !.els[e].playPend = TRUE], e)

\* pauseAudio: audio.pause(); setIsPlaying(false).
pauseAudio(s, e) ==
  LET s1 == IF s.els[e].paused THEN s
            ELSE onPause([s EXCEPT !.els[e].paused = TRUE,
                                   !.els[e].playPend = FALSE], e)
  IN [s1 EXCEPT !.isPlaying = FALSE]

\* if (audio.paused) playAudio() else pauseAudio()
PlayOrPause(s, e) ==
  IF e = NoEl THEN [s EXCEPT !.thrown = TRUE]
  ELSE IF s.els[e].paused THEN playAudio(s, e) ELSE pauseAudio(s, e)

\* Mutant: togglePlayPause without its early return.
ToggleGuardMissing(s) == FALSE

\* The early return of togglePlayPause.
ToggleGuard(s) ==
  \/ s.audioRef = NoEl
  \/ s.audioUrl = Null
  \/ s.isGenerating
  \/ s.isLoadingMetadata
  \/ s.error # NoError

\* Mutant: the transport call never waits for the context.
WaitsForResumeNever(c) == FALSE

\* What togglePlayPause does with a context in state c: a suspended context
\* is resumed and the transport call waits for it.
WaitsForResume(c) == c = "suspended"

togglePlayPause(s, st0) ==
  LET s0 == [s EXCEPT !.op = "togglePlayPause"] IN
  IF ToggleGuard(s0) THEN s0
  ELSE LET s1 == ensureAudioContext(s0, st0) IN
       IF s1.ctx # "none" /\ WaitsForResume(s1.ctx)
       THEN IF Len(s1.resumeThen) >= MaxThen THEN [s1 EXCEPT !.ovf = TRUE]
            ELSE [s1 EXCEPT !.resumeReq = TRUE,
                            !.resumeThen = Append(@, s1.audioRef)]
       ELSE Rerender(PlayOrPause(s1, s1.audioRef))

\* The value a range input with min=0 and max reports for a raw position x.
RangeValue(x, max) == IF x < 0 THEN 0 ELSE IF x > max THEN max ELSE x

\* HTMLMediaElement.currentTime setter: the new position is kept inside the
\* media timeline.
SeekTo(el, t) ==
  [el EXCEPT !.time = IF t < 0 THEN 0
                      ELSE IF isFinite(el.dur) /\ t > el.dur THEN el.dur
                      ELSE t]

\* handleSeek for the value the range input reports.
handleSeek(s, v) ==
  IF s.audioRef # NoEl /\ isFinite(s.els[s.audioRef].dur)
  THEN [s EXCEPT !.els[s.audioRef] = SeekTo(@, v), !.progress = v]
  ELSE s


\* ------------------------------------------------------------ player actions
Install(s) ==
  /\ mounted
  /\ ~s.ovf
  /\ closeCalls' = s.closeCalls /\ mounted' = s.mounted
  /\ audioUrl' = s.audioUrl /\ isGenerating' = s.isGenerating
  /\ isPlaying' = s.isPlaying /\ progress' = s.progress
  /\ duration' = s.duration /\ isLoadingMetadata' = s.isLoadingMetadata
  /\ error' = s.error /\ audioRef' = s.audioRef /\ canvasRef' = s.canvasRef
  /\ animationRef' = s.animationRef /\ sourceRef' = s.sourceRef
  /\ analyserRef' = s.analyserRef /\ ctx' = s.ctx /\ ctxAvail' = s.ctxAvail
  /\ resumeReq' = s.resumeReq /\ resumeThen' = s.resumeThen /\ els' = s.els
  /\ lisMeta' = s.lisMeta /\ lisCanPlay' = s.lisCanPlay
  /\ lisSync' = s.lisSync /\ e2El' = s.e2El /\ srcNodes' = s.srcNodes
  /\ anNodes' = s.anNodes /\ frames' = s.frames /\ e3Dep' = s.e3Dep
  /\ e3Loop' = s.e3Loop /\ op' = s.op /\ pre' = s.pre /\ seekX' = s.seekX
  /\ thrown' = s.thrown
  /\ bindError' = s.bindError
  /\ UNCHANGED <<serverVars, appVars>>

\* The state a context is in when it is constructed depends on the autoplay
\* policy; it is a choice only where a context may be constructed.
CtxStartOf(c) == IF c = "none" THEN {"suspended", "running"} ELSE {c}

\* The parent renders the player with a new audioUrl: load(u). The parent
\* sets isGenerating only together with a null audioUrl (App.tsx).
Load ==
  \E u \in Urls \cup {Null}, g \in BOOLEAN, st0 \in CtxStartOf(ctx) :
    /\ u # audioUrl
    /\ g => u = Null
    /\ Install(LoadCommit(St, u, g, st0))

\* The parent flips isGenerating while no audio is set (generation started,
\* or failed).
SetGenerating ==
  /\ audioUrl = Null
  /\ Install(Rerender([St EXCEPT !.isGenerating = ~isGenerating,
                                 !.op = "setGenerating"]))

\* The play/pause button handler is invoked.
TogglePlayPause ==
  \E st0 \in CtxStartOf(ctx) : Install(togglePlayPause(St, st0))

\* The range input reports a change for the raw position x. The input is
\* rendered by the main view and is disabled while duration is 0.
Seek ==
  \E x \in (0 - 1)..(MaxDur + 1) :
    /\ View(St) = "main"
    /\ duration # 0
    /\ Install(Rerender(handleSeek(
         [St EXCEPT !.op = "seek", !.seekX = x],
         RangeValue(x, IF duration # 0 THEN duration ELSE 1))))

\* The context starts running: every resume() promise resolves and the
\* continuations of togglePlayPause run in the order they were attached.
RECURSIVE RunThen(_, _)
RunThen(s, q) ==
  IF q = <<>> THEN s
  ELSE RunThen(Rerender(PlayOrPause(s, Head(q))), Tail(q))

ResumeResolved ==
  /\ ctx = "suspended" /\ resumeReq
  /\ Install(Rerender(RunThen(
       [St EXCEPT !.ctx = "running", !.resumeReq = FALSE,
                  !.resumeThen = <<>>, !.op = "resumeResolved"],
       resumeThen)))

\* The resume() promises reject: the continuations are dropped (the catch
\* only logs).
ResumeRejected ==
  /\ ctx = "suspended" /\ resumeReq
  /\ Install(Rerender([St EXCEPT !.resumeReq = FALSE, !.resumeThen = <<>>,
                                 !.op = "resumeRejected"]))

\* An animation frame fires and runs the renderFrame of its closure.
Frame ==
  \E f \in frames :
    Install(Collect(renderFrame(
      [St EXCEPT !.frames = @ \ {f}, !.op = "frame"], f.active)))

\* --- events of a media element e
\* The duration becomes known: durationchange, then loadedmetadata.
ElMetadata ==
  \E e \in ElIds, d \in DurVals :
    /\ els[e].net = "loading"
    /\ Install(Rerender(handleLoadedMetadata(handleDurationChange(
         [St EXCEPT !.els[e].net = "meta", !.els[e].dur = d,
                    !.op = "loadedmetadata"], e), e)))

\* The duration changes after the metadata was loaded (on an element whose
\* duration the component reads).
ElDurationChange ==
  \E e \in ElIds, d \in DurVals :
    /\ HasMetadata(els[e]) /\ d # els[e].dur /\ e \in {audioRef, lisMeta}
    /\ Install(Rerender(handleDurationChange(
         [St EXCEPT !.els[e].dur = d,
                    !.els[e].time = IF isFinite(d) /\ @ > d THEN d ELSE @,
                    !.op = "durationchange"], e)))

\* Mutant: the element fires error and goes on loading its resource.
ElErrorKeepsLoading ==
  \E e \in ElIds :
    /\ els[e].net \in {"loading", "meta", "enough"}
    /\ Install(Rerender(handleError([St EXCEPT !.op = "error"], e)))

\* The resource cannot be fetched or decoded.
ElError ==
  \E e \in ElIds :
    /\ els[e].net \in {"loading", "meta", "enough"}
    /\ Install(Rerender(handleError(
         [St EXCEPT !.els[e].net = "error", !.op = "error"], e)))

\* The element has enough data to play through (this happens again after a
\* stall). Only the element that carries the listener is followed.
ElCanPlayThrough ==
  \E e \in ElIds, st0 \in CtxStartOf(ctx) :
    /\ HasMetadata(els[e]) /\ e = lisCanPlay
    /\ Install(Rerender(handleCanPlayThrough(
         [St EXCEPT !.els[e].net = "enough", !.op = "canplaythrough"],
         e, st0)))

\* The promise of audio.play() resolves: .then(() => setIsPlaying(true)).
ElPlayResolved ==
  \E e \in ElIds :
    /\ els[e].playPend /\ HasMetadata(els[e])
    /\ Install(Rerender([St EXCEPT !.els[e].playPend = FALSE,
                                   !.isPlaying = TRUE,
                                   !.op = "playResolved"]))

\* The promise of audio.play() rejects (not allowed, or nothing to play): the
\* element stays paused and the catch only logs.
ElPlayRejected ==
  \E e \in ElIds :
    /\ els[e].playPend
    /\ Install(Rerender([St EXCEPT !.els[e].playPend = FALSE,
                                   !.els[e].paused = TRUE,
                                   !.op = "playRejected"]))

\* Playback advances by one second (on the element that carries the
\* timeupdate listener).
ElTimeUpdate ==
  \E e \in ElIds :
    /\ ~els[e].paused /\ ~els[e].playPend /\ HasMetadata(els[e])
    /\ e = lisSync
    /\ els[e].time < (IF isFinite(els[e].dur) THEN els[e].dur ELSE MaxDur)
    /\ LET s1 == [St EXCEPT !.els[e].time = @ + 1, !.op = "timeupdate"]
       IN Install(Rerender(onTimeUpdate(s1, e)))

\* The parent stops rendering the player.
Unmount == Install(UnmountCommit(St))

\* Playback reaches the end: the element pauses; pause and ended are fired.
ElEnded ==
  \E e \in ElIds :
    /\ ~els[e].paused /\ ~els[e].playPend /\ HasMetadata(els[e])
    /\ isFinite(els[e].dur)
    /\ Install(Rerender(onEnded(onPause(
         [St EXCEPT !.els[e].paused = TRUE, !.op = "ended"], e), e)))

\* ------------------------------------------------------------ initial states
\* ================================================================ the server
\* ---------------------------------------------------------- server domains
\* Strings are sequences of characters, so that toLowerCase is computed.
Chars == {"a", "A", "b"}
EmailVals == UNION {[1..n -> Chars] : n \in 0..MaxEmailLen}
PasswordVals == {"", "pw", "pw2"}
NoUser == [id |-> 0, email |-> <<>>, password |-> [salt |-> 0, pw |-> ""]]
NoHeader == [present |-> FALSE, rest |-> <<>>]
NoCred == [sig |-> "none", userId |-> 0, email |-> <<>>, exp |-> 0]
UpstreamStatuses == {200, 422}

\* String.prototype.toLowerCase
LowerChar(c) == IF c = "A" THEN "a" ELSE c
toLowerCase(str) == [i \in 1..Len(str) |-> LowerChar(str[i])]

\* bcrypt.hash(password, saltRounds) and bcrypt.compare(password, hash): the
\* hash carries a fresh salt and matches exactly the password it was made of.
bcryptHash(pw, salt) == [salt |-> salt, pw |-> pw]
\* Mutant: every password matches.
bcryptCompareAny(pw, hash) == hash.pw = hash.pw
bcryptCompare(pw, hash) == hash.pw = pw

\* jwt.sign(payload, JWT_SECRET, {expiresIn}): a token signed by this server
\* that expires one token lifetime after it was issued.
jwtSign(user, t) ==
  [sig |-> "server", userId |-> user.id, email |-> user.email,
   exp |-> t + TokenLife]

\* jwt.verify(token, JWT_SECRET): the signature is this server's and the
\* expiry time has not been reached.
jwtVerify(tok, t) == tok.sig = "server" /\ t < tok.exp

\* Credentials a caller can put in a header: a token it was issued, or a
\* token that does not carry this server's signature.
Forged == [sig |-> "other", userId |-> 1, email |-> <<"a">>,
           exp |-> MaxNow + TokenLife]
Creds == issued \cup {Forged}

\* req.headers['authorization'] split at blanks: the scheme word, then rest.
Headers == {NoHeader, [present |-> TRUE, rest |-> <<>>]}
             \cup {[present |-> TRUE, rest |-> <<c>>] : c \in Creds}

\* const token = authHeader && authHeader.split(' ')[1]
TokenOf(h) == IF h.present /\ Len(h.rest) >= 1 THEN h.rest[1] ELSE NoCred

\* Which routes are registered behind authenticateToken.
RequiresToken(f, route) ==
  f = "part_009" /\ route \in {"enroll", "synth"}

\* ----------------------------------------------------------- request record
\* stage: "find" (findUnique pending), "create" (hash and create pending),
\* "compare" (bcrypt.compare pending), "upstream" (axios call pending),
\* "streaming" (the audio stream is piped into the response), "done".
\* handler tells whether the route handler was entered; dup and fresh record
\* what held when the request arrived; errs counts the invocations of the
\* error-handling middleware.
NewReq(route, email, password, header, valid) ==
  [route |-> route, email |-> email, password |-> password,
   header |-> header, valid |-> valid, stage |-> "done", user |-> NoUser,
   handler |-> FALSE, errs |-> 0, fresh |-> jwtVerify(TokenOf(header), now),
   dup |-> \E u \in users : toLowerCase(u.email) = toLowerCase(email)]

Reply(status, body) == [status |-> status, body |-> body]

\* The error-handling middleware: res.status(err.status || 500).json(...).
errorHandler(status, message) ==
  Reply(IF status = 0 THEN 500 ELSE status, message)

\* State of the server as one record; handlers are functions on it.
Sv == [users |-> users, issued |-> issued, reqs |-> reqs, resps |-> resps,
       upstreamCalls |-> upstreamCalls]

respond(v, id, reply) ==
  [v EXCEPT !.resps[id] = Append(@, reply), !.reqs[id].stage = "done"]

await(v, id, stage) == [v EXCEPT !.reqs[id].stage = stage]

\* prisma.user.findUnique({where: {email}})
findUnique(us, key) ==
  IF \E u \in us : u.email = key
  THEN CHOOSE u \in us : u.email = key
  ELSE NoUser

\* Mutant: the lookup uses the email as it was sent.
LookupKeyVerbatim(email) == email

\* where: { email: email.toLowerCase() }
LookupKey(email) == toLowerCase(email)

\* ---------------------------------------------------------------- register
\* The handler up to its first await.
registerStart(v, f, id) ==
  LET r == v.reqs[id] IN
  IF r.email = <<>> \/ r.password = ""
  THEN respond(v, id, Reply(400,
         IF f = "server.ts" THEN "Email and password are required"
         ELSE "Email and password are required."))
  ELSE await(v, id, "find")

\* findUnique has answered: 409, or go on to hash and create.
registerFound(v, f, id) ==
  LET r == v.reqs[id]
      existingUser == findUnique(v.users, LookupKey(r.email)) IN
  IF existingUser # NoUser
  THEN respond(v, id, Reply(409,
         IF f = "server.ts" THEN "User with this email already exists"
         ELSE "User with this email already exists."))
  ELSE await(v, id, "create")

\* bcrypt.hash, then prisma.user.create: the unique index on email makes the
\* create throw when the email is taken; the catch hands an Error to next().
registerCreate(v, f, id) ==
  LET r == v.reqs[id]
      email == toLowerCase(r.email) IN
  IF \E u \in v.users : u.email = email
  THEN respond(v, id, errorHandler(0,
         IF f = "server.ts" THEN "Failed to register user"
         ELSE "Registration failed"))
  ELSE respond([v EXCEPT !.users = @ \cup
                  {[id |-> id, email |-> email,
                    password |-> bcryptHash(r.password, id)]}],
               id, Reply(201,
                 IF f = "server.ts" THEN "User registered successfully"
                 ELSE "User registered successfully!"))

\* ------------------------------------------------------------------- login
\* Mutant: an unknown email is answered differently from a wrong password.
NoUserReplyLeaks(f) == Reply(404, "User not found")

\* if (!user): the reply for an unknown email.
NoUserReply(f) ==
  Reply(401, IF f = "server.ts" THEN "Invalid email or password"
             ELSE "Invalid credentials.")

\* if (!isMatch): the reply for a wrong password.
BadPasswordReply(f) ==
  Reply(401, IF f = "server.ts" THEN "Invalid email or password"
             ELSE "Invalid credentials.")

\* The handler up to its first await; the two revisions test the signing
\* secret and the fields in opposite orders.
loginStart(v, f, secret, id) ==
  LET r == v.reqs[id]
      missing == r.email = <<>> \/ r.password = ""
      required == Reply(400,
         IF f = "server.ts" THEN "Email and password are required"
         ELSE "Email and password are required.")
      config == errorHandler(0,
         IF f = "server.ts" THEN "Authentication configuration error"
         ELSE "Server configuration error.") IN
  IF f = "server.ts"
  THEN IF ~secret THEN respond(v, id, config)
       ELSE IF missing THEN respond(v, id, required)
       ELSE await(v, id, "find")
  ELSE IF missing THEN respond(v, id, required)
       ELSE IF ~secret THEN respond(v, id, config)
       ELSE await(v, id, "find")

\* findUnique has answered.
loginFound(v, f, id) ==
  LET r == v.reqs[id]
      user == findUnique(v.users, toLowerCase(r.email)) IN
  IF user = NoUser
  THEN respond(v, id, NoUserReply(f))
  ELSE await([v EXCEPT !.reqs[id].user = user], id, "compare")

\* bcrypt.compare has answered: 401, or sign a token and answer 200.
loginCompared(v, f, id, t) ==
  LET r == v.reqs[id] IN
  IF ~bcryptCompare(r.password, r.user.password)
  THEN respond(v, id, BadPasswordReply(f))
  ELSE respond([v EXCEPT !.issued = @ \cup {jwtSign(r.user, t)}], id,
               Reply(200, IF f = "server.ts" THEN "Login successful"
                          ELSE "Login successful!"))

\* ------------------------------------------------------------ proxy routes
\* authenticateToken: 0 when it calls next(), else the status it sends.
authenticateToken(h, secret, t) ==
  LET token == TokenOf(h) IN
  IF token = NoCred THEN 401
  ELSE IF ~secret THEN 500
  ELSE IF ~jwtVerify(token, t) THEN 403
  ELSE 0

\* Mutant: the body is handed to the upstream provider as it came.
proxyHandlerNoValidation(v, key, id) ==
  await([v EXCEPT !.reqs[id].handler = TRUE, !.upstreamCalls = @ \cup {id}],
        id, "upstream")

\* The route handler up to its upstream call: the key check, the validation
\* of the body, then the axios request.
proxyHandler(v, key, id) ==
  LET r == v.reqs[id]
      v1 == [v EXCEPT !.reqs[id].handler = TRUE] IN
  IF ~key THEN respond(v1, id, Reply(500, "API key not configured"))
  ELSE IF r.valid = "nofiles"
  THEN respond(v1, id, Reply(400, "No audio files provided for cloning."))
  ELSE IF r.valid = "noname"
  THEN respond(v1, id, Reply(400, "Voice name is required."))
  ELSE IF r.valid = "notext"
  THEN respond(v1, id, Reply(400, "Text input is required."))
  ELSE await([v1 EXCEPT !.upstreamCalls = @ \cup {id}], id, "upstream")

\* A request to GET /api/voices, POST /api/voices or POST /api/tts/:voice_id
\* as the route is registered: behind authenticateToken or not.
proxyStart(v, f, secret, key, id, t) ==
  LET r == v.reqs[id]
      denied == IF RequiresToken(f, r.route)
                THEN authenticateToken(r.header, secret, t) ELSE 0 IN
  IF denied # 0
  THEN respond(v, id, Reply(denied, ""))
  ELSE proxyHandler(v, key, id)

\* res.headersSent: the status line and headers of a reply went out.
headersSent(v, id) == v.resps[id] # <<>>

\* Mutant: the middleware answers without looking at res.headersSent.
nextErrAlwaysAnswers(v, id, status, message) ==
  respond([v EXCEPT !.reqs[id].errs = @ + 1], id,
          errorHandler(status, message))

\* next(err) in a proxy route: the error-handling middleware runs; once the
\* headers are sent it passes the error on to the default handler of
\* Express, which closes the connection and writes nothing.
nextErr(v, id, status, message) ==
  LET v1 == [v EXCEPT !.reqs[id].errs = @ + 1] IN
  IF headersSent(v1, id) THEN await(v1, id, "done")
  ELSE respond(v1, id, errorHandler(status, message))

\* The upstream call has answered with status s. The audio of a synthesis
\* is piped into the response: setHeader, then response.data.pipe(res).
proxyAnswered(v, id, s) ==
  LET r == v.reqs[id] IN
  IF s = 200
  THEN IF r.route = "synth" THEN await(v, id, "streaming")
       ELSE respond(v, id, Reply(IF r.route = "enroll" THEN 201 ELSE 200,
                                 "upstream payload"))
  ELSE IF r.route = "synth"
  THEN nextErr(v, id, s, "ElevenLabs API Error")
  ELSE nextErr(v, id, 0,
         IF r.route = "list" THEN "Failed to fetch voices from ElevenLabs"
         ELSE "Failed to add voice via ElevenLabs API")

\* The pipe writes a chunk of audio: the first one sends the headers.
streamData(v, id) ==
  IF headersSent(v, id) THEN v
  ELSE [v EXCEPT !.resps[id] = Append(@, Reply(200, "upstream payload"))]

\* The upstream stream ends: the pipe calls res.end().
streamEnd(v, id) == await(streamData(v, id), id, "done")

\* The upstream stream fails: response.data.on('error', err => next(err)).
streamError(v, id) == nextErr(v, id, 0, "stream error")

\* ----------------------------------------------------------- server actions
InstallServer(v) ==
  /\ users' = v.users /\ issued' = v.issued /\ reqs' = v.reqs
  /\ resps' = v.resps /\ upstreamCalls' = v.upstreamCalls
  /\ UNCHANGED <<serverFile, jwtSecret, apiKey, now>>
  /\ UNCHANGED <<playerVars, appVars>>

\* The next request arrives; Express runs the route up to its first await.
Arrive(route, email, password, header, valid) ==
  LET id == Len(reqs) + 1
      v == [Sv EXCEPT !.reqs = Append(reqs,
                        NewReq(route, email, password, header, valid)),
                      !.resps = Append(resps, <<>>)] IN
  /\ Len(reqs) < MaxReqs
  /\ InstallServer(
       IF route = "register" THEN registerStart(v, serverFile, id)
       ELSE IF route = "login" THEN loginStart(v, serverFile, jwtSecret, id)
       ELSE proxyStart(v, serverFile, jwtSecret, apiKey, id, now))

PostRegister ==
  \E e \in EmailVals, p \in PasswordVals :
    Arrive("register", e, p, NoHeader, "ok")

PostLogin ==
  \E e \in EmailVals, p \in PasswordVals :
    Arrive("login", e, p, NoHeader, "ok")

GetVoices == Arrive("list", <<>>, "", NoHeader, "ok")

PostVoices ==
  \E h \in Headers, b \in {"ok", "nofiles", "noname"} :
    Arrive("enroll", <<>>, "", h, b)

PostTts ==
  \E h \in Headers, b \in {"ok", "notext"} :
    Arrive("synth", <<>>, "", h, b)

Pending(stage, route) ==
  {id \in 1..Len(reqs) : reqs[id].stage = stage /\ reqs[id].route = route}

RegisterFound ==
  \E id \in Pending("find", "register") :
    InstallServer(registerFound(Sv, serverFile, id))

RegisterCreate ==
  \E id \in Pending("create", "register") :
    InstallServer(registerCreate(Sv, serverFile, id))

LoginFound ==
  \E id \in Pending("find", "login") :
    InstallServer(loginFound(Sv, serverFile, id))

LoginCompared ==
  \E id \in Pending("compare", "login") :
    InstallServer(loginCompared(Sv, serverFile, id, now))

UpstreamAnswered ==
  \E id \in 1..Len(reqs), s \in UpstreamStatuses :
    /\ reqs[id].stage = "upstream"
    /\ InstallServer(proxyAnswered(Sv, id, s))

Streaming == {id \in 1..Len(reqs) : reqs[id].stage = "streaming"}

StreamData ==
  \E id \in Streaming :
    /\ ~headersSent(Sv, id)
    /\ InstallServer(streamData(Sv, id))

StreamEnd == \E id \in Streaming : InstallServer(streamEnd(Sv, id))

StreamError == \E id \in Streaming : InstallServer(streamError(Sv, id))

\* Time passes, in units of the token lifetime.
Tick ==
  /\ now < MaxNow
  /\ now' = now + 1
  /\ UNCHANGED <<serverFile, jwtSecret, apiKey, users, issued, reqs, resps,
                 upstreamCalls>>
  /\ UNCHANGED <<playerVars, appVars>>

\* ===================================================================== App
\* src/src/App.tsx with the service functions of
\* src/src/services/elevenlabs.ts (second revision) and the submit handler of
\* the voice cloning form (src/unnamed/part_004).
Tokens == {"t1", "t2"}
Statuses == {200, 401, 403, 500}
NoUrl == 0

\* The user record that the login response carries along with a token.
UserOf(t) == IF t = "t1" THEN "u1" ELSE "u2"

\* The component state as a record; rerun is set when selectedVoice gets a
\* new identity, which re-creates fetchVoices and re-runs the auth effect.
Ap ==
  [storage |-> storage, authToken |-> authToken, currentUser |-> currentUser,
   voices |-> voices, selectedVoice |-> selectedVoice,
   isLoadingVoices |-> isLoadingVoices, voicesError |-> voicesError,
   audioState |-> audioState, formError |-> formError,
   objectUrls |-> objectUrls, created |-> created, calls |-> calls,
   appOp |-> appOp, rerun |-> FALSE]

NoAudio == [isGenerating |-> FALSE, isPlaying |-> FALSE, audioUrl |-> NoUrl,
            error |-> Null]

handleLogout(a) ==
  [a EXCEPT !.storage = [authToken |-> Null, currentUser |-> Null],
            !.authToken = Null, !.currentUser = Null,
            !.voices = FALSE, !.selectedVoice = FALSE,
            !.rerun = @ \/ a.selectedVoice,
            !.voicesError = Null, !.audioState = NoAudio]

\* fetchVoices up to its await; sel is the selectedVoice of the render that
\* created this fetchVoices.
fetchVoices(a, token, sel) ==
  IF token = Null
  THEN [a EXCEPT !.voices = FALSE, !.selectedVoice = FALSE,
                 !.rerun = @ \/ a.selectedVoice, !.isLoadingVoices = FALSE]
  ELSE [a EXCEPT !.isLoadingVoices = TRUE, !.voicesError = Null,
                 !.calls = Append(@, [kind |-> "getVoices", sel |-> sel,
                                      stale |-> FALSE, late |-> FALSE])]

\* The effect on [handleLogout, fetchVoices].
authEffect(a) ==
  IF a.storage.authToken # Null /\ a.storage.currentUser # Null
  THEN fetchVoices([a EXCEPT !.authToken = a.storage.authToken,
                             !.currentUser = a.storage.currentUser],
                   a.storage.authToken, a.selectedVoice)
  ELSE [(IF a.authToken # Null \/ a.currentUser # Null
         THEN handleLogout(a) ELSE a) EXCEPT !.isLoadingVoices = FALSE]

\* The error a service function throws for a response status.
serviceError(kind, status) ==
  IF status \in {401, 403}
  THEN CASE kind = "getVoices" -> "Unauthorized: Invalid or expired token."
         [] kind = "addVoice" -> "Unauthorized: Cannot add voice."
         [] OTHER -> "Unauthorized: Cannot generate TTS."
  ELSE CASE kind = "getVoices" -> "Failed to fetch voices"
         [] kind = "addVoice" -> "Failed to add voice"
         [] OTHER -> "Failed to generate TTS"

\* errorMessage.includes('Unauthorized')
includesUnauthorized(m) ==
  m \in {"Unauthorized: Invalid or expired token.",
         "Unauthorized: Cannot add voice.",
         "Unauthorized: Cannot generate TTS.",
         "Unauthorized: Authentication token not found."}

handleLoginSuccess(a, t) ==
  fetchVoices([a EXCEPT !.storage = [authToken |-> t,
                                     currentUser |-> UserOf(t)],
                        !.authToken = t, !.currentUser = UserOf(t),
                        !.voicesError = Null, !.audioState = NoAudio],
              t, a.selectedVoice)

handleVoiceCloned(a, sel) ==
  IF a.storage.authToken # Null
  THEN fetchVoices(a, a.storage.authToken, sel)
  ELSE handleLogout(a)

\* handleGenerateAudio up to its await.
handleGenerateAudio(a) ==
  IF a.storage.authToken = Null
  THEN handleLogout([a EXCEPT !.audioState.error =
                                 "Please log in to generate audio."])
  ELSE [a EXCEPT !.audioState = [NoAudio EXCEPT !.isGenerating = TRUE],
                 !.calls = Append(@, [kind |-> "generateTTS", sel |-> FALSE,
                                      stale |-> FALSE, late |-> FALSE])]

\* handleSubmit of the voice cloning form up to its await; valid tells
\* whether the form holds a name and audio samples.
handleSubmit(a, valid) ==
  IF ~valid THEN [a EXCEPT !.formError = "Please enter a name for the voice."]
  ELSE IF a.storage.authToken = Null
  THEN [a EXCEPT !.formError =
                   "Unauthorized: Authentication token not found."]
  ELSE [a EXCEPT !.formError = Null,
                 !.calls = Append(@, [kind |-> "addVoice",
                                      sel |-> a.selectedVoice,
                                      stale |-> FALSE, late |-> FALSE])]

\* The continuation of call c of kind getVoices (try/catch/finally of
\* fetchVoices); some tells whether the list fetched holds a voice.
voicesAnswered(a, c, status, some) ==
  LET m == serviceError(c.kind, status)
      b == IF status = 200
           THEN IF some /\ ~c.sel
                THEN [a EXCEPT !.voices = TRUE, !.selectedVoice = TRUE,
                               !.rerun = TRUE]
                ELSE IF ~some
                THEN [a EXCEPT !.voices = FALSE, !.selectedVoice = FALSE,
                               !.rerun = @ \/ a.selectedVoice]
                ELSE [a EXCEPT !.voices = TRUE]
           ELSE IF includesUnauthorized(m)
                THEN handleLogout([a EXCEPT !.voicesError = m])
                ELSE [a EXCEPT !.voicesError = m]
  IN [b EXCEPT !.isLoadingVoices = FALSE]

\* The continuation of call c of kind generateTTS (handleGenerateAudio).
ttsAnswered(a, c, status) ==
  LET m == serviceError(c.kind, status)
      e == [a EXCEPT !.audioState.isGenerating = FALSE,
                     !.audioState.error = m]
  IN IF status = 200
     THEN [a EXCEPT !.created = @ + 1, !.objectUrls = @ \cup {a.created + 1},
                    !.audioState = [NoAudio EXCEPT !.audioUrl = a.created + 1]]
     ELSE IF includesUnauthorized(m) THEN handleLogout(e) ELSE e

\* The continuation of call c of kind addVoice (handleSubmit); the form that
\* made a stale call is unmounted, and setting its state does nothing.
submitAnswered(a, c, status) ==
  IF status = 200
  THEN handleVoiceCloned(a, c.sel)
  ELSE IF c.stale THEN a
  ELSE [a EXCEPT !.formError = serviceError(c.kind, status)]

\* The commit after a handler: the auth effect re-runs when fetchVoices was
\* re-created; the form is unmounted with the main view.
CommitApp(a) ==
  LET run(x) == IF x.rerun THEN authEffect([x EXCEPT !.rerun = FALSE]) ELSE x
      b == run(run(a))
  IN IF b.authToken # Null /\ b.currentUser # Null THEN b
     ELSE [b EXCEPT !.formError = Null,
                    !.calls = [i \in DOMAIN b.calls |->
                                 IF b.calls[i].kind = "addVoice"
                                 THEN [b.calls[i] EXCEPT !.stale = TRUE]
                                 ELSE b.calls[i]]]

\* ------------------------------------------------------------- App actions
InstallApp(a0, o) ==
  LET a == CommitApp(a0)
  IN /\ storage' = a.storage /\ authToken' = a.authToken
     /\ currentUser' = a.currentUser /\ voices' = a.voices
     /\ selectedVoice' = a.selectedVoice
     /\ isLoadingVoices' = a.isLoadingVoices
     /\ voicesError' = a.voicesError /\ audioState' = a.audioState
     /\ formError' = a.formError /\ objectUrls' = a.objectUrls
     /\ created' = a.created /\ calls' = a.calls /\ appOp' = o
     /\ UNCHANGED <<playerVars, serverVars>>

MainView == authToken # Null /\ currentUser # Null

\* The login form reports a successful login.
LoginSuccess ==
  /\ ~MainView /\ Len(calls) < MaxCalls
  /\ \E t \in Tokens :
       InstallApp(handleLoginSuccess(Ap, t), [kind |-> "login", status |-> 0, late |-> FALSE])

\* The header's logout button.
Logout ==
  /\ MainView
  /\ InstallApp(handleLogout(Ap), [kind |-> "logout", status |-> 0, late |-> FALSE])

\* The retry button of the voices error banner.
RetryVoices ==
  /\ MainView /\ voicesError # Null /\ Len(calls) < MaxCalls
  /\ InstallApp(fetchVoices(Ap, authToken, selectedVoice),
                [kind |-> "retry", status |-> 0, late |-> FALSE])

\* The text-to-speech form is submitted.
GenerateAudio ==
  /\ MainView /\ voicesError = Null /\ ~isLoadingVoices /\ voices
  /\ Len(calls) < MaxCalls
  /\ created + Cardinality({i \in DOMAIN calls :
                              calls[i].kind = "generateTTS"}) < MaxUrls
  /\ InstallApp(handleGenerateAudio(Ap), [kind |-> "generate", status |-> 0, late |-> FALSE])

\* The voice cloning form is submitted.
SubmitVoice ==
  /\ MainView /\ Len(calls) < MaxCalls
  /\ \E valid \in BOOLEAN :
       InstallApp(handleSubmit(Ap, valid), [kind |-> "submit", status |-> 0, late |-> FALSE])

\* The backend answers one of the calls in flight. The voice-list fetches
\* started before an answered one and still in flight are marked late.
CallAnswered ==
  \E i \in DOMAIN calls, status \in Statuses, some \in BOOLEAN :
    LET c == calls[i]
        older == [j \in 1..(i - 1) |->
                    IF c.kind = "getVoices" /\ status = 200
                       /\ calls[j].kind = "getVoices"
                    THEN [calls[j] EXCEPT !.late = TRUE] ELSE calls[j]]
        a == [Ap EXCEPT !.calls = older \o SubSeq(calls, i + 1, Len(calls))]
    IN /\ c.kind # "getVoices" => some
       /\ InstallApp(CASE c.kind = "getVoices" ->
                            voicesAnswered(a, c, status, some)
                       [] c.kind = "generateTTS" -> ttsAnswered(a, c, status)
                       [] OTHER -> submitAnswered(a, c, status),
                     [kind |-> c.kind, status |-> status, late |-> c.late])

\* ------------------------------------------------------------------- Init
\* No request has arrived yet.
ServerIdle ==
  /\ users = {} /\ issued = {} /\ now = 0
  /\ reqs = <<>> /\ resps = <<>> /\ upstreamCalls = {}

\* The environment provides the upstream key and the signing secret.
Configured == jwtSecret = TRUE /\ apiKey = TRUE

\* The App before anybody logged in: empty localStorage, login view.
AppIdle ==
  /\ storage = [authToken |-> Null, currentUser |-> Null]
  /\ authToken = Null /\ currentUser = Null
  /\ voices = FALSE /\ selectedVoice = FALSE /\ isLoadingVoices = FALSE
  /\ voicesError = Null /\ audioState = NoAudio /\ formError = Null
  /\ objectUrls = {} /\ created = 0 /\ calls = <<>>
  /\ appOp = [kind |-> "mount", status |-> 0, late |-> FALSE]

PlayerMounted ==
  /\ audioUrl = Null /\ isGenerating = FALSE
  /\ isPlaying = FALSE /\ progress = 0 /\ duration = 0
  /\ isLoadingMetadata = FALSE /\ error = NoError
  /\ audioRef = NoEl /\ canvasRef = FALSE /\ animationRef = 0
  /\ sourceRef = NoEl /\ analyserRef = NoEl
  /\ ctx = "none" /\ resumeReq = FALSE /\ resumeThen = <<>>
  /\ els = [e \in ElIds |-> BlankEl]
  /\ lisMeta = NoEl /\ lisCanPlay = NoEl /\ lisSync = NoEl /\ e2El = NoEl
  /\ srcNodes = [e \in ElIds |-> "none"] /\ anNodes = [e \in ElIds |-> "none"]
  /\ frames = {} /\ e3Dep = FALSE /\ e3Loop = FALSE
  /\ op = "mount" /\ pre = NoPre /\ seekX = 0
  /\ thrown = FALSE /\ bindError = FALSE
  /\ closeCalls = 0 /\ mounted = TRUE

\* The player right after its first render with audioUrl = null, on a
\* platform that has, or has not, an AudioContext constructor.
Init ==
  /\ PlayerMounted
  /\ ctxAvail \in BOOLEAN
  /\ serverFile = "server.ts" /\ Configured /\ ServerIdle
  /\ AppIdle

Next ==
  \/ Load
  \/ SetGenerating
  \/ TogglePlayPause
  \/ Seek
  \/ ResumeResolved
  \/ ResumeRejected
  \/ Frame
  \/ ElMetadata
  \/ ElDurationChange
  \/ ElError
  \/ ElCanPlayThrough
  \/ ElPlayResolved
  \/ ElPlayRejected
  \/ ElTimeUpdate
  \/ ElEnded
  \/ Unmount

Spec == Init /\ [][Next]_vars

\* The server of either revision, started with an empty user table.
InitServer ==
  /\ PlayerMounted
  /\ ctxAvail = TRUE
  /\ serverFile \in {"server.ts", "part_009"} /\ Configured /\ ServerIdle
  /\ AppIdle

NextServer ==
  \/ PostRegister
  \/ RegisterFound
  \/ RegisterCreate
  \/ PostLogin
  \/ LoginFound
  \/ LoginCompared
  \/ GetVoices
  \/ PostVoices
  \/ PostTts
  \/ UpstreamAnswered
  \/ StreamData
  \/ StreamEnd
  \/ StreamError
  \/ Tick

SpecServer == InitServer /\ [][NextServer]_vars

\* The App alone, next to an idle player and an idle server.
InitApp ==
  /\ PlayerMounted
  /\ ctxAvail = TRUE
  /\ serverFile = "part_009" /\ Configured /\ ServerIdle
  /\ AppIdle

NextApp ==
  \/ LoginSuccess
  \/ Logout
  \/ RetryVoices
  \/ GenerateAudio
  \/ SubmitVoice
  \/ CallAnswered

SpecApp == InitApp /\ [][NextApp]_vars


\* ======================================================= claims on the player
\* The engine states of the specification, read off the component state.
Empty == audioUrl = Null
Loading == isGenerating \/ isLoadingMetadata
Failed == error # NoError
Loaded == audioUrl # Null /\ ~Loading /\ ~Failed

ConnectedSources == {e \in ElIds : srcNodes[e] = "connected"}

\* C1: after any sequence of loads and readiness signals at most one source
\* node is connected, a node is never created for an element that already has
\* one (the platform never raises its double-binding error), and the node the
\* ref holds is the connected one.
C1_SingleSourceNode ==
  /\ ~bindError
  /\ Cardinality(ConnectedSources) <= 1
  /\ ConnectedSources \subseteq {sourceRef}

\* A source node is bound for the current source while an element of the
\* source loaded before it is still around.
C1_Witness ==
  /\ op = "canplaythrough"
  /\ sourceRef # NoEl /\ srcNodes[sourceRef] = "connected"
  /\ els[sourceRef].src = audioUrl
  /\ \E e \in ElIds \ {sourceRef} : els[e].src \notin {Null, audioUrl}

\* Everything of the player but the record of the last operation.
playerState == <<audioUrl, isGenerating, isPlaying, progress, duration,
                 isLoadingMetadata, error, audioRef, canvasRef, animationRef,
                 sourceRef, analyserRef, ctx, resumeReq, resumeThen, els,
                 lisMeta, lisCanPlay, lisSync, e2El, srcNodes, anNodes,
                 frames, e3Dep, e3Loop, thrown, bindError, closeCalls,
                 mounted>>

\* C5: togglePlayPause invoked while Empty, Loading or Error changes nothing
\* (no PlaybackState field, no element is played or paused, no context is
\* created or resumed) and raises no error.
C5_ToggleNoOp ==
  [][(op' = "togglePlayPause" /\ (Empty \/ Loading \/ Failed))
       => (UNCHANGED playerState /\ ~thrown')]_vars

\* togglePlayPause has just been invoked while metadata is pending.
C5_Witness ==
  op = "togglePlayPause" /\ audioUrl # Null /\ isLoadingMetadata

\* C6: every load leaves loaded = false, playing = false, currentPosition = 0
\* and totalDuration = 0.
C6_LoadResets ==
  op = "load" => (~Loaded /\ ~isPlaying /\ progress = 0 /\ duration = 0)

\* A load that started from a playing engine has just been committed.
C6_Witness ==
  op = "load" /\ audioUrl # Null /\ pre.playing

\* C7: at most one animation-frame callback is pending.
C7_SingleLoop == Cardinality(frames) <= 1

\* The loop is running: one frame is pending while playing.
C7_Witness == Cardinality(frames) = 1 /\ isPlaying /\ animationRef # 0

\* play() is issued on some element in this step.
PlayIssued == \E e \in ElIds : ~els[e].playPend /\ els'[e].playPend

\* C8 as stated: play is issued only when the context is running.
C8_PlayOnlyWhenRunning ==
  [][PlayIssued => ctx' = "running"]_vars

\* C8 amended: play is never issued against a suspended context; it is issued
\* with a running context, or with no context at all on a platform where none
\* can be constructed.
C8_PlayNeverWhenSuspended ==
  [][PlayIssued => (ctx' = "running" \/ (ctx' = "none" /\ ~ctxAvail))]_vars

\* The resume of a suspended context has completed and the play that waited
\* for it has been issued.
C8_Witness ==
  op = "resumeResolved" /\ ctx = "running" /\ \E e \in ElIds : els[e].playPend

Clamp(x, lo, hi) == IF x < lo THEN lo ELSE IF x > hi THEN hi ELSE x

\* C9: after seek(x), made while totalDuration is known, currentPosition is x
\* clamped to [0, totalDuration] and the media element was told to jump there.
C9_SeekClamps ==
  op = "seek" =>
    /\ progress = Clamp(seekX, 0, duration)
    /\ audioRef # NoEl /\ els[audioRef].time = Clamp(seekX, 0, duration)

\* C10: load(null) while Playing leaves playing = false and no transport
\* controls, both nodes disconnected and dropped, and no frame scheduled.
C10_LoadNullStops ==
  (op = "load" /\ audioUrl = Null /\ pre.playing) =>
    /\ ~isPlaying /\ audioRef = NoEl /\ ~canvasRef
    /\ sourceRef = NoEl /\ analyserRef = NoEl
    /\ \A e \in ElIds : srcNodes[e] # "connected" /\ anNodes[e] # "connected"
    /\ frames = {} /\ animationRef = 0

\* load(null) has just been committed on an engine that was playing with its
\* nodes bound and its loop running.
C10_Witness ==
  /\ op = "load" /\ audioUrl = Null
  /\ pre.playing /\ pre.bound /\ pre.frame

\* ======================================================= claims on the server
Requests(route) == {id \in 1..Len(reqs) : reqs[id].route = route}
Answered(id) == reqs[id].stage = "done"
Status(id) == resps[id][1].status
SameEmail(e1, e2) == toLowerCase(e1) = toLowerCase(e2)

\* C2: a request to POST /api/voices or POST /api/tts/:voiceId without a
\* bearer token is answered 401, one with an invalid or expired token is
\* answered 403, and in both cases the route handler does not run and no
\* upstream call is made.
C2_TokenRequired ==
  \A id \in Requests("enroll") \cup Requests("synth") :
    LET r == reqs[id] IN
    ~r.fresh =>
      /\ ~r.handler
      /\ id \notin upstreamCalls
      /\ resps[id] = <<Reply(IF TokenOf(r.header) = NoCred THEN 401 ELSE 403,
                             "")>>

\* The register requests this step has started or moved on.
Handled(id) ==
  /\ id \in 1..Len(reqs') /\ reqs'[id].route = "register"
  /\ (id > Len(reqs) \/ reqs'[id] # reqs[id])

UnknownEmail(id) ==
  /\ id \in Requests("login") /\ Answered(id)
  /\ reqs[id].email # <<>> /\ reqs[id].password # ""
  /\ ~\E u \in users : SameEmail(u.email, reqs[id].email)

\* A login with non-empty fields, answered, for the email of a user that was
\* stored when it arrived, with a secret that is not that user's.
WrongSecret(id) ==
  /\ id \in Requests("login") /\ Answered(id)
  /\ reqs[id].email # <<>> /\ reqs[id].password # ""
  /\ reqs[id].dup
  /\ \E u \in users : /\ SameEmail(u.email, reqs[id].email)
                      /\ ~bcryptCompare(reqs[id].password, u.password)

C11_TeardownIdempotent ==
  op = "unmount" =>
    /\ Teardown(St) = St
    /\ ~Teardown(St).thrown /\ ~thrown
    /\ Teardown(St).closeCalls <= 1
    /\ Teardown(St).frames = {} /\ Teardown(St).animationRef = 0

\* The player was unmounted while playing with its nodes bound, its loop
\* running and a context to close.
C11_Witness ==
  /\ op = "unmount" /\ pre.playing /\ pre.bound /\ pre.frame
  /\ ctx = "closed" /\ closeCalls = 1

\* C12: the engine is loaded, with a known totalDuration, only by a reported
\* duration that is finite and strictly positive: no infinite, NaN or zero
\* duration is ever accepted.
C12_OnlyPositiveDuration ==
  Loaded => (isFinite(duration) /\ duration > 0)

\* C13: after a media load failure and after a rejected play() the engine
\* is in the Error state with lastError set.
C13_FailuresCaptured ==
  op \in {"error", "playRejected"} => Failed

\* ========================================================= claims on the App
\* C14: whenever a call of the client (getVoices, addVoice, generateTTS) is
\* answered 401 or 403, the client clears its session: the stored token and
\* user are removed and the token and user held in memory become null.
C14_SessionCleared ==
  [][appOp'.status \in {401, 403}
       => /\ storage' = [authToken |-> Null, currentUser |-> Null]
          /\ authToken' = Null /\ currentUser' = Null]_vars

\* C18: the only object URL created and not yet revoked is the current one
\* (audioState.audioUrl), after any sequence of generations and logouts.
C18_OnlyCurrentUnreleased == objectUrls \subseteq {audioState.audioUrl}

\* ============================================== claims on the session token
\* The login requests answered 200 whose email is, ignoring case, the email
\* of the stored user u and whose secret is the one u's hash was made of.
LoginsOf(u) ==
  {id \in Requests("login") :
     /\ Answered(id) /\ Status(id) = 200
     /\ toLowerCase(reqs[id].email) = u.email
     /\ reqs[id].password = u.password.pw}

\* C15: a session token is issued only by a login whose email matches a
\* stored user ignoring case and whose secret matches that user's hash, and
\* its claims are that user's id and email; so the claims that
\* authenticateToken attaches to a request identify a registered user who
\* logged in successfully.
C15_TokenOnlyByLogin ==
  /\ \A tok \in issued :
        /\ tok.sig = "server"
        /\ \E u \in users : /\ tok.userId = u.id /\ tok.email = u.email
                             /\ LoginsOf(u) # {}
  /\ \A id \in 1..Len(reqs) :
        (RequiresToken(serverFile, reqs[id].route) /\ reqs[id].handler)
          => TokenOf(reqs[id].header) \in issued

\* A token was issued and a protected route ran with it, while another login
\* for the same user with another secret was turned down.
C15_Witness ==
  /\ \E id \in 1..Len(reqs) :
        /\ RequiresToken(serverFile, reqs[id].route) /\ reqs[id].handler
        /\ TokenOf(reqs[id].header) \in issued
  /\ \E id \in Requests("login") : Answered(id) /\ Status(id) = 200

\* ======================================================= claims on the proxy
\* C16: for listVoices, enrollVoice and synthesize, when the upstream
\* provider fails with status s the caller is answered an error with status
\* s, and the proxy makes no second upstream call.
C16_UpstreamStatusRelayed ==
  [][\A id \in 1..Len(reqs) :
       (/\ reqs[id].stage = "upstream" /\ reqs'[id].stage = "done"
        /\ resps'[id][1].status \notin {200, 201})
         => /\ resps'[id][1].status \in UpstreamStatuses \ {200}
            /\ upstreamCalls' = upstreamCalls]_vars

\* The requests to enrollVoice without a file or without a name and to
\* synthesize without text.
InvalidInput ==
  {id \in Requests("enroll") \cup Requests("synth") : reqs[id].valid # "ok"}

\* C17 as stated: enrollVoice with no audio file or with an empty name, and
\* synthesize with empty or missing text, are answered 400 and make no
\* upstream call.
C17_InvalidIs400 ==
  \A id \in InvalidInput :
    Answered(id) /\ Status(id) = 400 /\ id \notin upstreamCalls

\* C17, amended: such a request makes no upstream call, and it is answered 400
\* once it is past authenticateToken where the route has it; without a
\* token it is answered 401 and with a token that does not verify 403.
C17_InvalidIs400PastAuth ==
  \A id \in InvalidInput :
    /\ Answered(id) /\ id \notin upstreamCalls
    /\ Status(id) =
         IF ~RequiresToken(serverFile, reqs[id].route) THEN 400
         ELSE IF TokenOf(reqs[id].header) = NoCred THEN 401
         ELSE IF ~reqs[id].fresh THEN 403
         ELSE 400

\* A request with invalid input got past authenticateToken, was answered 400
\* by the handler, and made no upstream call.
C17_Witness ==
  \E id \in InvalidInput :
    /\ RequiresToken(serverFile, reqs[id].route) /\ reqs[id].handler
    /\ Answered(id) /\ Status(id) = 400 /\ id \notin upstreamCalls

\* ============================================ claims on the player's release
\* C19: after load(null), and after unmount, no visualization loop is
\* outstanding and the audio context, if one was made, is closed.
C19_LoopAndContextReleased ==
  ((op = "load" /\ audioUrl = Null) \/ op = "unmount") =>
    /\ frames = {} /\ animationRef = 0
    /\ ctx \in {"none", "closed"}

\* ===================================== claims on the visualization schedule
\* The engine is Playing: a source is loaded and playback is on.
Playing == Loaded /\ isPlaying

\* C20: a frame callback that goes on with the loop (and pulls frequency
\* data from the analysis node when it runs) is scheduled only while Playing;
\* a callback left over from before can only run once and schedules nothing.
C20_LoopOnlyWhilePlaying ==
  /\ (\E f \in frames : f.active) => Playing
  /\ ~Playing => Cardinality(frames) <= 1

\* ================================================ claims on source switching
\* The elements that hold a listener of the component or a connected node.
Holders ==
  ({lisMeta, lisCanPlay, lisSync}
     \cup {e \in ElIds : srcNodes[e] = "connected" \/ anNodes[e] = "connected"})
    \ {NoEl}

C23_EndedLeavesPlaying == op = "ended" => ~isPlaying

\* C25: whenever the transport controls are available, the element that
\* togglePlayPause and handleSeek act on (audioRef) is the element that
\* carries the metadata/error listeners, the timeupdate/play/pause/ended
\* listeners and the canplaythrough listener, and the one the source node is
\* bound to.
C25_ListenersOnCurrentElement ==
  Loaded =>
    /\ audioRef # NoEl
    /\ lisMeta = audioRef /\ lisSync = audioRef
    /\ lisCanPlay \in {NoEl, audioRef}
    /\ sourceRef \in {NoEl, audioRef}

\* ============================================ claims on concurrent requests
\* Two register requests with non-empty fields and the same email ignoring
\* case, both in the server before either stored a user, both answered.
ConcurrentRegisters ==
  {p \in Requests("register") \X Requests("register") :
     /\ p[1] < p[2] /\ Answered(p[1]) /\ Answered(p[2])
     /\ reqs[p[1]].email # <<>> /\ reqs[p[1]].password # ""
     /\ reqs[p[2]].password # ""
     /\ SameEmail(reqs[p[1]].email, reqs[p[2]].email)
     /\ ~reqs[p[1]].dup /\ ~reqs[p[2]].dup}

\* C24: of two concurrent register requests with the same email at most one
\* user record with that email is stored, exactly one request is answered
\* 201 and the other 409.
C24_ConcurrentRegister ==
  /\ \A u1, u2 \in users : u1.email = u2.email => u1 = u2
  /\ \A p \in ConcurrentRegisters : {Status(p[1]), Status(p[2])} = {201, 409}

\* C26: playing = true implies that a source is set, that it is loaded and
\* that no error is set, also when a resume() or play() promise of an
\* earlier togglePlayPause settles after a load.
C26_PlayingImpliesLoaded == isPlaying => Loaded

\* ================================================ claims on late responses
\* C27: while nobody is logged in the audio state is {isGenerating: false,
\* audioUrl: null, error: null}: a synthesis response or failure that arrives
\* after the logout installs no audioUrl and no error.
C27_LoggedOutAudioEmpty == authToken = Null => audioState = NoAudio

\* C30: when several voice-list fetches are in flight, a response to a fetch
\* that was started before one already answered does not overwrite the list
\* that the newer fetch installed.
C30_LatestFetchWins ==
  [][(appOp'.kind = "getVoices" /\ appOp'.status = 200 /\ appOp'.late)
       => voices' = voices]_vars

\* ============================================ claims on the loop's start
\* C28: whenever the engine is Playing and the analysis node of the current
\* source is bound, the visualization loop is running (a frame callback that
\* goes on with the loop is scheduled), also when the node was bound by a
\* readiness signal that came after playback had started.
C28_LoopRunsWhenBound ==
  (Playing /\ analyserRef # NoEl /\ canvasRef) => \E f \in frames : f.active

\* ============================================== claims on the audio stream
\* C29: every synthesis request gets exactly one response, the 200 audio
\* stream or one JSON error: at most one status line is ever written for
\* it, a finished request has exactly one, a stream error after the headers
\* went out writes nothing more, and the error-handling middleware is
\* invoked at most once per request.
C29_OneResponse ==
  \A id \in Requests("synth") :
    /\ Len(resps[id]) <= 1
    /\ Answered(id) => Len(resps[id]) = 1
    /\ reqs[id].errs <= 1

\* A stream failed after its headers were sent: the middleware ran and the
\* request ended with the 200 it had begun.
C29_Witness ==
  \E id \in Requests("synth") :
    /\ Answered(id) /\ reqs[id].errs = 1
    /\ resps[id] = <<Reply(200, "upstream payload")>>
====
